---- MODULE Spec2Model ----
(***************************************************************************)
(* Model of bvsls_opt_engine (src/src/tactic/sls/bvsls_opt_engine.cpp):    *)
(* the optimisation layer of the bit-vector stochastic local search.       *)
(*                                                                         *)
(* The engine owns two trackers.  The Hard Tracker (m_hard_tracker, an     *)
(* alias of sls_engine::m_tracker, driven by m_evaluator) holds the        *)
(* assignment of all variables of the assertions.  The Objective Tracker   *)
(* (m_obj_tracker, driven by m_obj_evaluator) holds its own assignment of  *)
(* the objective's variables and the cached value of the objective.        *)
(*                                                                         *)
(* Variables: x is a bit-vector of width W, y a bit-vector of width 1.     *)
(* The assertions are represented by the set of assignments satisfying     *)
(* them.  The objective is x, x + 1, x + zero_extend(y) or a numeral,      *)
(* possibly under bvneg (what minimize passes to maximize).  For these     *)
(* objectives every inner node depends on every objective variable, so an  *)
(* incremental update of the Objective Tracker recomputes the whole        *)
(* objective from the tracker's assignment.                                *)
(***************************************************************************)
EXTENDS Integers, Sequences, FiniteSets, TLC

\* ---------------------------------------------------------------- bounds
W == 3            \* bit-width of x and of the objective
MaxMoves == 2     \* cap on m_stats.m_moves (iterations of maximize's loop)
TimeLimit == 1    \* _TIMELIMIT_, in clock ticks
MaxRestarts == 1  \* m_max_restarts

\* ------------------------------------------------------ program constants
NoConst == -1     \* (unsigned)-1, the "no improving move" sentinel
NoOptimum == -1   \* res.optimum left unset (null expr_ref)
l_false == -1     \* lbool
l_undef == 0
l_true == 1

VarNames == {"x", "y"}

Pow2(n) == 2 ^ n

\* bit-width of a variable's sort
bv_size(v) == IF v = "x" THEN W ELSE 1

\* all assignments of the Hard Tracker's variables
Assignments == {a \in [VarNames -> 0 .. Pow2(W) - 1] : \A v \in VarNames : a[v] < Pow2(bv_size(v))}

\* the model object before any interpretation is registered
EmptyModel == [v \in {} |-> 0]

\* ------------------------------------------------------------ objectives
\* An objective: kind "var" is x, "inc" is x + 1, "add" is x + zero_extend(y),
\* "num" the numeral k; neg says the expression is wrapped in bvneg.
ObjConsts == {1, 6}

Objectives ==
    {[kind |-> "var", k |-> 0, neg |-> FALSE], [kind |-> "inc", k |-> 0, neg |-> FALSE],
     [kind |-> "add", k |-> 0, neg |-> FALSE]}
        \cup {[kind |-> "num", k |-> c, neg |-> FALSE] : c \in ObjConsts}

\* m_bv_util.mk_bv_neg
mk_bv_neg(e) == [e EXCEPT !.neg = ~e.neg]

\* m_obj_tracker.get_constants(): the objective's free variables, in order
get_constants(e) ==
    CASE e.kind = "var" -> <<"x">>
      [] e.kind = "inc" -> <<"x">>
      [] e.kind = "add" -> <<"x", "y">>
      [] OTHER -> << >>

ConstSet(e) == {get_constants(e)[n] : n \in 1 .. Len(get_constants(e))}

\* exact value of the objective expression under an assignment a of its
\* variables (arithmetic modulo 2^W)
Eval(e, a) ==
    LET b == CASE e.kind = "var" -> a["x"]
               [] e.kind = "inc" -> (a["x"] + 1) % Pow2(W)
               [] e.kind = "add" -> (a["x"] + a["y"]) % Pow2(W)
               [] OTHER -> e.k % Pow2(W)
    IN IF e.neg THEN (Pow2(W) - b) % Pow2(W) ELSE b

\* ----------------------------------------------------------- assertions
\* The assertion sets of the catalogue, each as its set of models: no
\* constraint on the values, x < 2^(W-1), x = 0 or x = 5 (two values no
\* catalog move leads between), exactly one assignment, none.
AssertionSets ==
    {Assignments, {a \in Assignments : a["x"] < Pow2(W - 1)},
     {a \in Assignments : a["x"] \in {0, 5}}, {}}
        \cup {{a} : a \in Assignments}

\* ------------------------------------------------------------------ state
VARIABLES
    assertions,          \* m_assertions, as the set of assignments satisfying them
    objective,           \* optimize's objective argument
    is_max,              \* optimize's _maximize argument
    hard,                \* Hard Tracker: value of every variable
    obj,                 \* Objective Tracker: value of every objective variable
    obj_val,             \* Objective Tracker: cached value of the objective
    obj_e,               \* the expression maximize was called with
    is_sat,              \* res.is_sat
    optimum,             \* res.optimum
    m_restarts,          \* m_stats.m_restarts
    clock,               \* m_stats.m_stopwatch.get_current_seconds()
    pc,                  \* position in optimize / maximize
    score,               \* maximize's score (line 96)
    old_score,           \* maximize's old_score
    iscore,              \* the score declared inside the loop body (line 113)
    new_const,           \* maximize's new_const / find_best_move's best_const
    new_value,           \* maximize's new_value / find_best_move's best_value
    new_bit,             \* maximize's new_bit
    move,                \* maximize's move
    m_moves,             \* m_stats.m_moves
    m_best_model,        \* m_best_model
    m_best_model_score,  \* m_best_model_score
    fbm_i,               \* find_best_move: index i of the scanned variable
    fbm_k,               \* find_best_move: position in the variable's move list
    old_value,           \* find_best_move: old_value
    new_score,           \* find_best_move: new_score
    retry_count,         \* randomize_wrt_hard: retry_count
    saves,               \* history: number of save_model calls
    disagreed,           \* history: a save_model call saw the trackers disagree
    committed_max,       \* history: greatest exact objective value of a committed assignment
    how,                 \* history: how maximize left its loop
    committed,           \* history: the assignment maximize last committed (seed, move, escape)
    restart_ok           \* history: check_restart's latest answer (line 105)

inputs == <<assertions, objective, is_max>>
trackers == <<hard, obj, obj_val>>
result == <<is_sat, optimum>>
best == <<m_best_model, m_best_model_score, saves, disagreed>>
locals == <<score, old_score, iscore, new_const, new_value, new_bit, move>>
scan == <<fbm_i, fbm_k, old_value, new_score>>

vars == <<assertions, objective, is_max, hard, obj, obj_val, obj_e, is_sat, optimum,
          m_restarts, clock, pc, score, old_score, iscore, new_const, new_value,
          new_bit, move, m_moves, m_best_model, m_best_model_score, fbm_i, fbm_k,
          old_value, new_score, retry_count, saves, disagreed, committed_max, how,
          committed, restart_ok>>

\* 2^w - 1 for the objective's width (line 101)
max_score == Pow2(W) - 1

\* ------------------------------------------------------ tracker operations
\* m_hard_tracker.is_sat() for the Hard Tracker holding h
is_sat_hard(h) == h \in assertions

\* m_evaluator.update(fd, val) / incremental_score(fd, val): the Hard Tracker
\* after the update
update_hard(h, fd, val) == [h EXCEPT ![fd] = val]

\* m_obj_evaluator.update(fd, val): the Objective Tracker's assignment after
\* the update
update_obj(o, fd, val) == [o EXCEPT ![fd] = val]

\* the Objective Tracker's value of expression e once its assignment is o
\* and an update has recomputed it
recompute(e, o) == Eval(e, o)

\* m_obj_tracker.initialize(objs): the objective's variables, all at zero
initialize_obj(e) == [v \in ConstSet(e) |-> 0]

\* m_obj_tracker.set_model(mdl): takes mdl's value for each of its variables
set_model_obj(o, mdl) == [v \in DOMAIN o |-> IF v \in DOMAIN mdl THEN mdl[v] ELSE o[v]]

\* m_obj_tracker.get_value(obj_e) after lines 89-91: update_all computed the
\* objective from the assignment initialize left, then set_model replaced the
\* variables' values only; the value of an expression that is not itself a
\* variable is the one update_all computed
seeded_value(e, o0, o1) ==
    IF e.kind = "var" /\ ~e.neg THEN o1["x"] ELSE recompute(e, o0)

\* ----------------------------------------------------------- move catalog
\* bit j of v
Bit(v, j) == (v \div Pow2(j)) % 2

mk_flip(old, j) == IF Bit(old, j) = 1 THEN old - Pow2(j) ELSE old + Pow2(j)
mk_inc(bv_sz, old) == (old + 1) % Pow2(bv_sz)
mk_dec(bv_sz, old) == (old + Pow2(bv_sz) - 1) % Pow2(bv_sz)
mk_inv(bv_sz, old) == Pow2(bv_sz) - 1 - old
mk_mul2(bv_sz, old) == (2 * old) % Pow2(bv_sz)
mk_div2(old) == old \div 2
mk_add(bv_sz, a, b) == (a + b) % Pow2(bv_sz)

\* the trials find_best_move makes for a variable of width bv_sz holding old,
\* in the order of lines 230-283 (all of _USE_ADDSUB_, _USE_UNARY_MINUS_,
\* _USE_MUL2DIV2_ and _USE_MUL3_ set)
FlipMoves(bv_sz, old) ==
    [j \in 1 .. bv_sz |-> [mv |-> "MV_FLIP", bit |-> j - 1, val |-> mk_flip(old, j - 1)]]

\* OtherMoves with the parity test of the first move inverted: +1 for even
\* values, -1 for odd ones
OtherMoves_parity(bv_sz, old) ==
    IF bv_sz > 1
    THEN << [mv |-> IF old % 2 = 0 THEN "MV_INC" ELSE "MV_DEC", bit |-> 0,
             val |-> IF old % 2 = 0 THEN mk_inc(bv_sz, old) ELSE mk_dec(bv_sz, old)],
            [mv |-> "MV_INV", bit |-> 0, val |-> mk_inv(bv_sz, old)],
            [mv |-> "MV_UMIN", bit |-> 0, val |-> mk_inc(bv_sz, mk_inv(bv_sz, old))],
            [mv |-> "MV_MUL2", bit |-> 0, val |-> mk_mul2(bv_sz, old)],
            [mv |-> "MV_MUL3", bit |-> 0, val |-> mk_add(bv_sz, old, mk_mul2(bv_sz, old))],
            [mv |-> "MV_DIV2", bit |-> 0, val |-> mk_div2(old)] >>
    ELSE << >>

OtherMoves(bv_sz, old) ==
    IF bv_sz > 1
    THEN << [mv |-> IF old % 2 = 1 THEN "MV_INC" ELSE "MV_DEC", bit |-> 0,
             val |-> IF old % 2 = 1 THEN mk_inc(bv_sz, old) ELSE mk_dec(bv_sz, old)],
            [mv |-> "MV_INV", bit |-> 0, val |-> mk_inv(bv_sz, old)],
            [mv |-> "MV_UMIN", bit |-> 0, val |-> mk_inc(bv_sz, mk_inv(bv_sz, old))],
            [mv |-> "MV_MUL2", bit |-> 0, val |-> mk_mul2(bv_sz, old)],
            [mv |-> "MV_MUL3", bit |-> 0, val |-> mk_add(bv_sz, old, mk_mul2(bv_sz, old))],
            [mv |-> "MV_DIV2", bit |-> 0, val |-> mk_div2(old)] >>
    ELSE << >>

MoveList(bv_sz, old) == FlipMoves(bv_sz, old) \o OtherMoves(bv_sz, old)

\* ----------------------------------------------------------------- what_if
\* what_if's test of the trial (line 187): r >= 1.0 && m_tracker.is_sat(),
\* for the Hard Tracker h that holds the trial
trial_accepted(h) == is_sat_hard(h)

\* what_if's comparison (line 195)
better(cur_best, best_score) == cur_best > best_score

\* what_if(fd, fd_inx, temp, best_score, best_const, best_value) run on the
\* trackers (h, o, ov): the trackers, the three reference arguments and the
\* return value as it leaves them
what_if(h, o, ov, fd, fd_inx, temp, best_score, best_const, best_value) ==
    LET h1 == update_hard(h, fd, temp)
        acc == trial_accepted(h1)
        o1 == IF acc THEN update_obj(o, fd, temp) ELSE o
        ov1 == IF acc THEN recompute(obj_e, o1) ELSE ov
        imp == acc /\ better(ov1, best_score)
    IN [hard |-> h1, obj |-> o1, obj_val |-> ov1,
        best_score |-> IF imp THEN ov1 ELSE best_score,
        best_const |-> IF imp THEN fd_inx ELSE best_const,
        best_value |-> IF imp THEN temp ELSE best_value,
        ret |-> imp]

\* ---------------------------------------------------------------- save_model
\* the model save_model stores: the Hard Tracker's model, plus the Objective
\* Tracker's value of every variable the Hard Tracker does not interpret
merged_model(h, o) ==
    [v \in DOMAIN h \cup DOMAIN o |-> IF v \in DOMAIN h THEN h[v] ELSE o[v]]

\* the SASSERT of line 162 fails
models_disagree(h, o) == \E v \in DOMAIN o : v \in DOMAIN h /\ h[v] # o[v]

\* save_guard with >= for >: an equal score is saved again
save_guard_ge(s, best_score) == s >= best_score

\* the test guarding save_model inside the loop (line 119)
save_guard(s, best_score) == s > best_score

\* -------------------------------------------------------------------- Init
\* The engine as constructed and given its assertions, with optimize's
\* arguments chosen; the Hard Tracker holds whatever initialize and the
\* optional initial model leave in it (lines 43-54).
Init ==
    /\ assertions \in AssertionSets
    /\ objective \in Objectives
    /\ is_max \in BOOLEAN
    /\ hard \in Assignments
    /\ obj = EmptyModel
    /\ obj_val = 0
    /\ obj_e = objective
    /\ is_sat = l_undef
    /\ optimum = NoOptimum
    /\ m_restarts = 0
    /\ clock = 0
    /\ pc = "optimize"
    /\ score = 0
    /\ old_score = 0
    /\ iscore = 0
    /\ new_const = NoConst
    /\ new_value = 0
    /\ new_bit = 0
    /\ move = "none"
    /\ m_moves = 0
    /\ m_best_model = EmptyModel
    /\ m_best_model_score = 0
    /\ fbm_i = 0
    /\ fbm_k = 0
    /\ old_value = 0
    /\ new_score = 0
    /\ retry_count = 0
    /\ saves = 0
    /\ disagreed = FALSE
    /\ committed_max = 0
    /\ how = "none"
    /\ committed = EmptyModel
    /\ restart_ok = TRUE

\* ---------------------------------------------------------------- optimize
\* an lbool used as a condition: every value but 0 counts as true
truthy(b) == b # 0

\* lines 56-60: the first verdict, and whether the satisfy loop is entered
Optimize ==
    /\ pc = "optimize"
    /\ is_sat' = IF is_sat_hard(hard) THEN l_true ELSE l_undef
    /\ pc' = IF ~truthy(is_sat') THEN "search" ELSE "dispatch"
    /\ UNCHANGED <<inputs, trackers, obj_e, optimum, m_restarts, clock, locals, m_moves,
                   best, scan, retry_count, committed_max, how, restart_ok,
                   committed>>

\* lines 62-68: one base search.  It ends sat with the Hard Tracker on a
\* model of the assertions, unknown (and the Hard Tracker is randomized), or
\* unsat, which a sound search reports only when no model exists.
Search ==
    /\ pc = "search"
    /\ \/ \E h \in assertions : is_sat' = l_true /\ hard' = h
       \/ \E h \in Assignments : is_sat' = l_undef /\ hard' = h
       \/ /\ assertions = {}
          /\ \E h \in Assignments : is_sat' = l_false /\ hard' = h
    /\ pc' = "sat_check"
    /\ UNCHANGED <<inputs, obj, obj_val, obj_e, optimum, m_restarts, clock, locals, m_moves,
                   best, scan, retry_count, committed_max, how, restart_ok,
                   committed>>

\* lines 69-70: the satisfy loop's condition, with its short-circuit
SatCheck ==
    /\ pc = "sat_check"
    /\ IF clock < TimeLimit /\ is_sat # l_true
       THEN /\ m_restarts' = m_restarts + 1
            /\ pc' = IF m_restarts < MaxRestarts THEN "search" ELSE "dispatch"
       ELSE /\ m_restarts' = m_restarts
            /\ pc' = "dispatch"
    /\ UNCHANGED <<inputs, trackers, obj_e, result, clock, locals, m_moves,
                   best, scan, retry_count, committed_max, how, restart_ok,
                   committed>>

\* the stopwatch advances; it is read at the two loop conditions only
Tick ==
    /\ pc \in {"sat_check", "loop_head"}
    /\ clock < TimeLimit
    /\ clock' = clock + 1
    /\ UNCHANGED <<inputs, trackers, obj_e, result, m_restarts, pc, locals, m_moves,
                   best, scan, retry_count, committed_max, how, restart_ok,
                   committed>>

\* lines 73-74 and 144-148: maximize(objective) or, through minimize,
\* maximize(bvneg(objective))
Dispatch ==
    /\ pc = "dispatch"
    /\ IF truthy(is_sat)
       THEN /\ obj_e' = IF is_max THEN objective ELSE mk_bv_neg(objective)
            /\ pc' = "maximize"
       ELSE /\ obj_e' = obj_e
            /\ pc' = "done"
    /\ UNCHANGED <<inputs, trackers, result, m_restarts, clock, locals, m_moves,
                   best, scan, retry_count, committed_max, how, restart_ok,
                   committed>>

\* ---------------------------------------------------------------- maximize
Max(a, b) == IF a > b THEN a ELSE b

\* lines 83-103: set up the Objective Tracker, read the score, first save
MaximizeBegin ==
    /\ pc = "maximize"
    /\ LET o0 == initialize_obj(obj_e)
           o1 == set_model_obj(o0, hard)
           s == seeded_value(obj_e, o0, o1)
       IN /\ obj' = o1
          /\ obj_val' = s
          /\ score' = s
          /\ m_best_model' = merged_model(hard, o1)
          /\ m_best_model_score' = s
          /\ disagreed' = (disagreed \/ models_disagree(hard, o1))
    /\ saves' = saves + 1
    /\ new_const' = NoConst
    /\ new_bit' = 0
    /\ committed_max' = Eval(obj_e, hard)
    /\ committed' = hard
    /\ pc' = "loop_head"
    /\ UNCHANGED <<inputs, hard, obj_e, result, m_restarts, clock, old_score, iscore,
                   new_value, move, m_moves, scan, retry_count, how, restart_ok>>

\* loop_guard without the test of the elapsed time
loop_guard_no_time(ok) == ok /\ score < max_score

\* the loop condition of lines 105-107; ok is check_restart's answer
loop_guard(ok) == ok /\ clock < TimeLimit /\ score < max_score

\* lines 108-115 and 216-221: a new iteration starts and calls
\* find_best_move with the score declared at line 113.  m_moves is counted
\* up to MaxMoves only.
LoopEnter ==
    /\ pc = "loop_head"
    /\ \E ok \in BOOLEAN : loop_guard(ok) /\ restart_ok' = ok
    /\ m_moves' = IF m_moves < MaxMoves THEN m_moves + 1 ELSE m_moves
    /\ old_score' = score
    /\ new_const' = NoConst
    /\ iscore' = 0
    /\ new_score' = 0
    /\ fbm_i' = 0
    /\ pc' = "fbm_var"
    /\ UNCHANGED <<inputs, trackers, obj_e, result, m_restarts, clock, score, new_value,
                   new_bit, move, best, fbm_k, old_value, retry_count, committed_max, how,
                   committed>>

\* the loop condition fails
LoopExit ==
    /\ pc = "loop_head"
    /\ \E ok \in BOOLEAN : ~loop_guard(ok) /\ restart_ok' = ok
    /\ how' = "guard"
    /\ pc' = "ret"
    /\ UNCHANGED <<inputs, trackers, obj_e, result, m_restarts, clock, locals, m_moves,
                   best, scan, retry_count, committed_max,
                   committed>>

\* ----------------------------------------------------------- find_best_move
consts == get_constants(obj_e)

\* the variable find_best_move is scanning
scan_fd == consts[fbm_i + 1]

\* line 223: the condition of the loop over the variables
scan_more == fbm_i < Len(consts) /\ new_score < max_score

\* lines 223-227: the next variable is taken up and its value read
FbmVar ==
    /\ pc = "fbm_var"
    /\ scan_more
    /\ old_value' = hard[scan_fd]
    /\ fbm_k' = 1
    /\ pc' = "fbm_move"
    /\ UNCHANGED <<inputs, trackers, obj_e, result, m_restarts, clock, locals, m_moves,
                   best, fbm_i, new_score, retry_count, committed_max, how, restart_ok,
                   committed>>

\* lines 290-296 and 114: the scan is over, its score goes to line 113's score
FbmReturn ==
    /\ pc = "fbm_var"
    /\ ~scan_more
    /\ iscore' = new_score
    /\ pc' = "decide"
    /\ UNCHANGED <<inputs, trackers, obj_e, result, m_restarts, clock, score, old_score,
                   new_const, new_value, new_bit, move, m_moves, best, scan, retry_count,
                   committed_max, how, restart_ok,
                   committed>>

scan_moves == MoveList(bv_size(scan_fd), old_value)

\* line 230: the flip loop stops once the best score is the maximum
flip_stopped == scan_moves[fbm_k].mv = "MV_FLIP" /\ ~(new_score < max_score)

\* one what_if call of lines 234-282, on the next trial of the move list
FbmTry ==
    /\ pc = "fbm_move"
    /\ fbm_k <= Len(scan_moves)
    /\ ~flip_stopped
    /\ LET m == scan_moves[fbm_k]
           r == what_if(hard, obj, obj_val, scan_fd, fbm_i, m.val, new_score, new_const, new_value)
       IN /\ hard' = r.hard
          /\ obj' = r.obj
          /\ obj_val' = r.obj_val
          /\ new_score' = r.best_score
          /\ new_const' = r.best_const
          /\ new_value' = r.best_value
          /\ move' = IF r.ret THEN m.mv ELSE move
          /\ new_bit' = IF r.ret /\ m.mv = "MV_FLIP" THEN m.bit ELSE new_bit
    /\ fbm_k' = fbm_k + 1
    /\ UNCHANGED <<inputs, obj_e, result, m_restarts, clock, score, old_score, iscore,
                   m_moves, best, fbm_i, old_value, pc, retry_count, committed_max, how, restart_ok,
                   committed>>

\* line 230: a flip that is not tried because the flip loop has stopped
FbmSkipFlip ==
    /\ pc = "fbm_move"
    /\ fbm_k <= Len(scan_moves)
    /\ flip_stopped
    /\ fbm_k' = fbm_k + 1
    /\ UNCHANGED <<inputs, trackers, obj_e, result, m_restarts, clock, locals, m_moves,
                   best, fbm_i, old_value, new_score, pc, retry_count, committed_max, how, restart_ok,
                   committed>>

\* restored_value without the write-back: the last trial stays applied
restored_value_none(h, fd, old) == h

\* line 287: the value find_best_move writes back after a variable's trials
restored_value(h, fd, old) == update_hard(h, fd, old)

\* lines 286-288: the scanned variable is reset, the scan moves on
FbmRestore ==
    /\ pc = "fbm_move"
    /\ fbm_k > Len(scan_moves)
    /\ hard' = restored_value(hard, scan_fd, old_value)
    /\ fbm_i' = fbm_i + 1
    /\ pc' = "fbm_var"
    /\ UNCHANGED <<inputs, obj, obj_val, obj_e, result, m_restarts, clock, locals, m_moves,
                   best, fbm_k, old_value, new_score, retry_count, committed_max, how, restart_ok,
                   committed>>

\* ------------------------------------------------ maximize, lines 117-133
\* top_score(): the Objective Tracker's value of the objective
top_score == obj_val

\* lines 117-121: no improving move; the score is reset, saved if it beats
\* the best-known one, and randomize_wrt_hard is called (lines 300-302)
NoImprove ==
    /\ pc = "decide"
    /\ new_const = NoConst
    /\ iscore' = old_score
    /\ IF save_guard(old_score, m_best_model_score)
       THEN /\ m_best_model' = merged_model(hard, obj)
            /\ m_best_model_score' = old_score
            /\ saves' = saves + 1
            /\ disagreed' = (disagreed \/ models_disagree(hard, obj))
       ELSE UNCHANGED best
    /\ retry_count' = Len(consts)
    /\ pc' = "rnd"
    /\ UNCHANGED <<inputs, trackers, obj_e, result, m_restarts, clock, score, old_score,
                   new_const, new_value, new_bit, move, m_moves, scan, committed_max, how, restart_ok,
                   committed>>

\* lines 128-133: the best move is committed with incremental_score and the
\* score read with top_score()
Commit ==
    /\ pc = "decide"
    /\ new_const # NoConst
    /\ hard' = update_hard(hard, consts[new_const + 1], new_value)
    /\ iscore' = top_score
    /\ committed_max' = Max(committed_max, Eval(obj_e, hard'))
    /\ committed' = hard'
    /\ pc' = "loop_head"
    /\ UNCHANGED <<inputs, obj, obj_val, obj_e, result, m_restarts, clock, score, old_score,
                   new_const, new_value, new_bit, move, m_moves, best, scan, retry_count,
                   how, restart_ok>>

\* -------------------------------------------------------- randomize_wrt_hard
\* line 304: the retry loop's condition
retry_again(rc) == rc > 0

\* undo_draw without the write-back: the rejected draw stays applied
undo_draw_none(h, fd, old) == h

\* line 326: a rejected draw is undone in the Hard Tracker
undo_draw(h, fd, old) == update_hard(h, fd, old)

\* lines 304-327: one retry.  A draw that differs from the current value
\* and keeps the Hard Tracker satisfied is applied to both trackers and
\* ends the call (line 126 then reads the score); a draw that differs and
\* is rejected is undone; a draw of the current value changes nothing.
RndTry ==
    /\ pc = "rnd"
    /\ retry_again(retry_count)
    /\ retry_count' = retry_count - 1
    /\ \E ri \in 1 .. Len(consts) :
         \E random_val \in 0 .. Pow2(bv_size(consts[ri])) - 1 :
            LET fd == consts[ri]
                h1 == update_hard(hard, fd, random_val)
            IN IF random_val # hard[fd]
               THEN IF is_sat_hard(h1)
                    THEN /\ hard' = h1
                         /\ obj' = update_obj(obj, fd, random_val)
                         /\ obj_val' = recompute(obj_e, obj')
                         /\ iscore' = obj_val'
                         /\ committed_max' = Max(committed_max, Eval(obj_e, h1))
                         /\ committed' = h1
                         /\ pc' = "loop_head"
                    ELSE /\ hard' = undo_draw(h1, fd, hard[fd])
                         /\ UNCHANGED <<obj, obj_val, iscore, committed_max, committed, pc>>
               ELSE UNCHANGED <<trackers, iscore, committed_max, committed, pc>>
    /\ UNCHANGED <<inputs, obj_e, result, m_restarts, clock, score, old_score, new_const,
                   new_value, new_bit, move, m_moves, best, scan, how, restart_ok>>

\* lines 330 and 121-124: the retries are used up, maximize bails out
RndFail ==
    /\ pc = "rnd"
    /\ ~retry_again(retry_count)
    /\ how' = "bailout"
    /\ pc' = "ret"
    /\ UNCHANGED <<inputs, trackers, obj_e, result, m_restarts, clock, locals, m_moves,
                   best, scan, retry_count, committed_max, restart_ok,
                   committed>>

\* lines 136-141 and 74: the best-known score as a numeral of the
\* objective's width becomes res.optimum
mk_numeral(v, bv_sz) == v % Pow2(bv_sz)

Return ==
    /\ pc = "ret"
    /\ optimum' = mk_numeral(m_best_model_score, W)
    /\ pc' = "done"
    /\ UNCHANGED <<inputs, trackers, obj_e, is_sat, m_restarts, clock, locals, m_moves,
                   best, scan, retry_count, committed_max, how, restart_ok,
                   committed>>

Step ==
    \/ Optimize
    \/ Search
    \/ SatCheck
    \/ Dispatch
    \/ MaximizeBegin
    \/ LoopEnter
    \/ LoopExit
    \/ FbmVar
    \/ FbmReturn
    \/ FbmTry
    \/ FbmSkipFlip
    \/ FbmRestore
    \/ NoImprove
    \/ Commit
    \/ RndTry
    \/ RndFail
    \/ Return

Next == Step \/ Tick

Spec == Init /\ [][Next]_vars

\* the program keeps running and the stopwatch keeps advancing
FairSpec == Spec /\ WF_vars(Step) /\ SF_vars(Tick)

TypeOK ==
    /\ hard \in Assignments
    /\ pc \in {"optimize", "search", "sat_check", "dispatch", "maximize", "loop_head",
               "fbm_var", "fbm_move", "decide", "rnd", "ret", "done"}
    /\ score \in 0 .. max_score
    /\ m_best_model_score \in 0 .. max_score
    /\ optimum \in {NoOptimum} \cup 0 .. max_score

\* ------------------------------------------------------------------ claims
\* maximize has been entered and has made its first save
InMaximize == saves > 0

FreeAssertions == assertions = Assignments
PinnedAssertions == Cardinality(assertions) = 1
ObjectiveIsX == obj_e = [kind |-> "var", k |-> 0, neg |-> FALSE]

\* C1: whenever maximize has saved or returns a best-known score, that score
\* is the exact value of the objective under the best-known assignment, that
\* assignment satisfies the assertions, and the returned optimum is that score.
C1_BestScoreExactAndFeasible ==
    InMaximize =>
        /\ m_best_model_score = Eval(obj_e, m_best_model)
        /\ m_best_model \in assertions
        /\ (pc = "done" => optimum = m_best_model_score)

\* C2: with assertions every assignment satisfies and the objective x,
\* maximize returns 2^W - 1 whenever the budgets did not end the search
\* before it got there: the call bailed out, or its score or a committed
\* assignment reached 2^W - 1.
C2_MaximizeFreeVarReachesTop ==
    (/\ pc = "done"
     /\ InMaximize
     /\ FreeAssertions
     /\ ObjectiveIsX
     /\ (how = "bailout" \/ score = max_score \/ committed_max = max_score))
        => optimum = max_score

\* C3: what optimize returns for minimize is the two's-complement negation
\* of what maximize returned for the negated objective.
C3_NegationLaw ==
    (pc = "done" /\ InMaximize /\ ~is_max)
        => optimum = (Pow2(W) - mk_numeral(m_best_model_score, W)) % Pow2(W)

\* C4: the value maximize returns is at least the objective's value under
\* every assignment the call committed (the seeded one, every committed best
\* move, every successful escape); stated for the objective x, whose score
\* the first save reads exactly.
C4_ReturnDominatesCommitted ==
    (pc = "done" /\ InMaximize /\ ObjectiveIsX) => optimum >= committed_max

\* C5: after the first save the best-known score never decreases, and a
\* later save stores a strictly greater score.
C5_BestScoreMonotone ==
    [][InMaximize =>
         /\ m_best_model_score' >= m_best_model_score
         /\ (saves' # saves => m_best_model_score' > m_best_model_score)]_vars

\* C5 witness: a second iteration has gone through the save test of line 119
\* with the best-known result of the first save in place.
C5_Witness == pc = "rnd" /\ m_moves >= 2 /\ saves = 1 /\ m_best_model_score = score

\* C6: if the satisfy phase ends without sat, optimize is over with no
\* optimum and maximize is never entered.
C6_NoOptimumWithoutSat ==
    (is_sat # l_true /\ pc \notin {"optimize", "search", "sat_check", "dispatch"})
        => (pc = "done" /\ optimum = NoOptimum /\ ~InMaximize)

\* C7: at the head of every iteration of maximize's loop and at every
\* save_model call the two trackers agree on every variable both interpret.
C7_TrackersAgree ==
    /\ (pc = "loop_head" => ~models_disagree(hard, obj))
    /\ ~disagreed

\* C8: when exactly one assignment satisfies the assertions, the scan reports
\* no improving move, the escape makes at most csz retries and fails, and
\* maximize bails out in that iteration and returns the best-known score;
\* stated for the objective x.
C8_PinnedBailout ==
    (PinnedAssertions /\ InMaximize /\ ObjectiveIsX) =>
        /\ (pc = "decide" => new_const = NoConst)
        /\ (pc = "rnd" => retry_count \in 0 .. Len(consts))
        /\ (pc = "loop_head" => m_moves = 0)
        /\ (pc = "done" => optimum = m_best_model_score /\ (m_moves > 0 => how = "bailout"))

\* C9: with a numeral k as the objective no trial is made, no random draw
\* is made, maximize leaves its loop in the first iteration and the optimum
\* is k for maximize and for minimize.
C9_ConstantObjective ==
    (objective.kind = "num" /\ InMaximize) =>
        /\ pc # "fbm_move"
        /\ ~(pc = "rnd" /\ retry_count > 0)
        /\ (pc = "loop_head" => m_moves = 0)
        /\ (pc = "done" => optimum = objective.k)

\* C10: maximize starts an iteration only when check_restart answered yes
\* and the elapsed time is below the time budget, and, the stopwatch
\* advancing, every call of maximize returns.
C10_MaximizeTerminates ==
    /\ [][(pc = "loop_head" /\ pc' = "fbm_var") => (restart_ok' /\ clock < TimeLimit)]_vars
    /\ (pc = "maximize") ~> (pc = "done")

\* C10 witness: a call that iterated and was ended by the time budget.
C10_Witness ==
    /\ pc = "done"
    /\ how = "guard"
    /\ restart_ok
    /\ clock = TimeLimit
    /\ m_moves >= 1
    /\ score < max_score

\* the exact value of the objective under the assignment this iteration
\* of maximize started from
iteration_start_score == Eval(obj_e, committed)

\* the exact value of the objective under the move find_best_move reported
reported_move_score ==
    Eval(obj_e, update_hard(committed, consts[new_const + 1], new_value))

\* C11: with the objective x, when find_best_move has reported a move
\* (new_const is not the sentinel), the objective's value under that move
\* is strictly greater than its value under the assignment the iteration
\* started from, and the move's score is what the call returned.
C11_ReportedMoveImproves ==
    (pc = "decide" /\ ObjectiveIsX /\ new_const # NoConst) =>
        /\ iscore = reported_move_score
        /\ reported_move_score > iteration_start_score

\* C12: with the objective x, an iteration after the first starts only
\* when the score the loop condition tests is the score the preceding
\* commit or escape produced, and the objective's value under the
\* committed assignment is strictly below 2^W - 1.
C12_GuardTestsReachedScore ==
    [][(pc = "loop_head" /\ pc' = "fbm_var" /\ m_moves >= 1 /\ ObjectiveIsX) =>
          /\ score = iscore
          /\ Eval(obj_e, committed) < max_score]_vars

\* a step that is one what_if call of the scan
WhatIfStep == pc = "fbm_move" /\ fbm_k' # fbm_k /\ ~flip_stopped

\* C13: on return from every what_if call the trial variable holds, in the
\* Hard Tracker and in the Objective Tracker, the value it held when the
\* call began.
C13_WhatIfRestores ==
    [][WhatIfStep =>
          /\ hard'[scan_fd] = hard[scan_fd]
          /\ obj'[scan_fd] = obj[scan_fd]]_vars

\* C14: the score what_if computes for an accepted trial of the variable v
\* with the value t is the exact value of the objective under the
\* assignment the scan began with, with only v changed to t.
C14_TrialIsolation ==
    [][(WhatIfStep /\ trial_accepted(hard')) =>
          obj_val' = Eval(obj_e, update_hard(committed, scan_fd, hard'[scan_fd]))]_vars

\* the catalog moves of the i-th scanned variable, for the value it holds in
\* the assignment the scan began with
catalog_of(i) == MoveList(bv_size(consts[i + 1]), committed[consts[i + 1]])

\* the assignment the scan began with, with only the k-th catalog move of
\* the i-th variable applied
trial_assignment(i, k) == update_hard(committed, consts[i + 1], catalog_of(i)[k].val)

\* the moves that keep the Hard Tracker satisfied and whose exact objective
\* value exceeds the baseline the scan was given (line 113's score, zero)
ImprovingMoves ==
    {c \in (0 .. Len(consts) - 1) \X (1 .. W + 6) :
        /\ c[2] <= Len(catalog_of(c[1]))
        /\ is_sat_hard(trial_assignment(c[1], c[2]))
        /\ Eval(obj_e, trial_assignment(c[1], c[2])) > 0}

move_value(c) == Eval(obj_e, trial_assignment(c[1], c[2]))

scanned_before(c, d) == c[1] < d[1] \/ (c[1] = d[1] /\ c[2] < d[2])

\* the first move in scan order among those of greatest exact value
SteepestMove ==
    CHOOSE c \in ImprovingMoves :
        \A d \in ImprovingMoves :
            \/ move_value(c) > move_value(d)
            \/ (move_value(c) = move_value(d) /\ (c = d \/ scanned_before(c, d)))

\* C15: find_best_move returns the greatest objective value over the catalog
\* moves that keep the Hard Tracker satisfied and exceed the baseline, with
\* the first such move in scan order as (best_const, best_value, move); with
\* no such move it leaves best_const at the sentinel and returns the baseline.
C15_SteepestAscentFirstFound ==
    pc = "decide" =>
        IF ImprovingMoves = {}
        THEN new_const = NoConst /\ iscore = 0
        ELSE /\ new_const = SteepestMove[1]
             /\ new_value = catalog_of(SteepestMove[1])[SteepestMove[2]].val
             /\ move = catalog_of(SteepestMove[1])[SteepestMove[2]].mv
             /\ iscore = move_value(SteepestMove)

\* C15 for objectives of one variable
C15_OneVariable ==
    Len(consts) <= 1 => C15_SteepestAscentFirstFound

\* C16: when find_best_move returns, and between the scans of two variables,
\* every variable has in the Hard Tracker the value it had when the scan
\* began.
C16_ScanLeavesHardTracker ==
    pc \in {"fbm_var", "decide"} => hard = committed

\* C16 witness: a scan stopped early, after trials that changed the Hard
\* Tracker, its best score being 2^W - 1 with a variable left unscanned.
C16_Witness ==
    /\ pc = "decide"
    /\ new_score = max_score
    /\ fbm_i < Len(consts)
    /\ hard[consts[new_const + 1]] # new_value
    /\ hard = committed

\* C17: at the head of every iteration of maximize's loop and when maximize
\* returns, the Hard Tracker's assignment satisfies the assertions.
C17_HardTrackerSatisfied ==
    (InMaximize /\ pc \in {"loop_head", "ret", "done"}) => is_sat_hard(hard)

\* C17 for the calls of maximize made after a base search that answered sat
C17_AfterSat ==
    is_sat = l_true => C17_HardTrackerSatisfied

\* the variables of the objective whose Hard Tracker value a step changes
changed_consts == {fd \in ConstSet(obj_e) : hard'[fd] # hard[fd]}

\* C18: a retry of randomize_wrt_hard that does not succeed, and the call
\* returning false, leave both trackers as they were at entry; a retry that
\* succeeds changes exactly one variable of the objective, to a value that
\* differs from its previous one, writes that value to both trackers,
\* changes no other variable and leaves the Hard Tracker satisfied.
C18_EscapeChangesOnlyOnSuccess ==
    [][pc = "rnd" =>
          /\ hard = committed
          /\ (pc' # "loop_head" => (hard' = hard /\ obj' = obj))
          /\ (pc' = "loop_head" =>
                /\ Cardinality(changed_consts) = 1
                /\ \A fd \in changed_consts : obj' = [obj EXCEPT ![fd] = hard'[fd]]
                /\ \A v \in VarNames \ changed_consts : hard'[v] = hard[v]
                /\ is_sat_hard(hard'))]_vars

\* C18 witness: an escape that succeeded at its last retry, after a retry
\* that changed nothing; both trackers hold the drawn value and the Hard
\* Tracker is satisfied.
C18_Witness ==
    /\ pc = "loop_head"
    /\ new_const = NoConst
    /\ m_moves >= 1
    /\ retry_count = 0
    /\ Len(consts) = 2
    /\ is_sat = l_true
    /\ is_sat_hard(hard)
    /\ \E fd \in ConstSet(obj_e) : obj[fd] = hard[fd]

\* v with bit j inverted, by the digits of v
with_bit_flipped(v, j) ==
    (v \div Pow2(j + 1)) * Pow2(j + 1) + (1 - ((v \div Pow2(j)) % 2)) * Pow2(j) + (v % Pow2(j))

\* the trial values the Move Catalog lists for a variable of width w that
\* holds v, in the catalog's order
CatalogTrials(w, v) ==
    [j \in 1 .. w |-> with_bit_flipped(v, j - 1)]
        \o (IF w > 1
            THEN << IF v % 2 = 1 THEN (v + 1) % Pow2(w) ELSE (v - 1) % Pow2(w),
                    Pow2(w) - 1 - v,
                    (Pow2(w) - 1 - v + 1) % Pow2(w),
                    (2 * v) % Pow2(w),
                    (3 * v) % Pow2(w),
                    v \div 2 >>
            ELSE << >>)

\* C19: the k-th trial of a scanned variable of width w holding v is the
\* k-th value of the Move Catalog for (w, v): the w bit flips, then for
\* w > 1 the +1 or -1 by parity, the complement, the complement plus one,
\* 2v, 3v and v shifted right by one; it lies in 0 .. 2^w - 1; a flip is
\* left out only once the best score is 2^W - 1; and the variable is reset
\* after the last value of the catalog and not before.
C19_MoveCatalog ==
    [][pc = "fbm_move" =>
          LET w == bv_size(scan_fd)
              catalog == CatalogTrials(w, committed[scan_fd])
          IN /\ (WhatIfStep =>
                    /\ fbm_k <= Len(catalog)
                    /\ hard'[scan_fd] = catalog[fbm_k]
                    /\ hard'[scan_fd] \in 0 .. Pow2(w) - 1)
             /\ ((fbm_k' # fbm_k /\ hard' = hard /\ ~WhatIfStep) =>
                    (fbm_k <= w /\ new_score = max_score))
             /\ (pc' = "fbm_var" => fbm_k = Len(catalog) + 1)]_vars

\* C19 witness: the single flip of the width-1 variable has been tried,
\* after the W + 6 trials of the width-W variable.
C19_Witness ==
    /\ pc = "fbm_move"
    /\ fbm_i = 1
    /\ bv_size(consts[1]) = W
    /\ bv_size(scan_fd) = 1
    /\ fbm_k = 2
    /\ hard[scan_fd] = 1 - old_value
    /\ new_score < max_score

\* C20: the score maximize reads at its start and passes to the first
\* save_model is the exact value of the objective under the Hard Tracker's
\* assignment at entry.
C20_SeededScoreExact ==
    (pc = "loop_head" /\ m_moves = 0 /\ InMaximize) =>
        /\ hard = committed
        /\ score = Eval(obj_e, committed)
        /\ m_best_model_score = score

====
